---- MODULE Spec2Model ----
(***************************************************************************)
(* Calorie & meal planner (src/jz.py): one run of the script is modelled   *)
(* as a pipeline of steps,                                                 *)
(*   upload -> bmr -> targets -> macros -> timing -> splits -> suggest     *)
(*          -> done | aborted                                              *)
(* and a rerun of the script (every widget interaction reruns it) keeps    *)
(* the previous run's outputs in `prev` so that two runs can be compared.  *)
(*                                                                         *)
(* Arithmetic is exact rational arithmetic on scaled integers (Python's    *)
(* binary floating point error is not modelled):                           *)
(*   weight_kg        tenths of a kg                                       *)
(*   bmr              1/1000 kcal                                          *)
(*   no_activity_total, balances e/e1/e2      1/7000 kcal                  *)
(*   every other kcal total (targets, fat, protein, remaining)  1/8750 kcal*)
(*   per-meal kcal (a total times a percentage)  1/875000 kcal             *)
(*   protein_grams, carb_grams                tenths of a gram             *)
(*   meal fractions                           percent                      *)
(***************************************************************************)
EXTENDS Integers, Sequences, FiniteSets, TLC

(* ---------------------------------------------------------------------- *)
(* Python primitives                                                       *)
(* ---------------------------------------------------------------------- *)
Min(a, b) == IF a <= b THEN a ELSE b

Max(a, b) == IF a >= b THEN a ELSE b

UpperAlpha == "ABCDEFGHIJKLMNOPQRSTUVWXYZ"

LowerAlpha == "abcdefghijklmnopqrstuvwxyz"

LowerChar(c) ==
    IF \E i \in 1..Len(UpperAlpha) : SubSeq(UpperAlpha, i, i) = c
    THEN LET i == CHOOSE j \in 1..Len(UpperAlpha) : SubSeq(UpperAlpha, j, j) = c
         IN  SubSeq(LowerAlpha, i, i)
    ELSE c

RECURSIVE lower(_)
\* str.lower()
lower(s) ==
    IF Len(s) = 0 THEN ""
    ELSE LowerChar(SubSeq(s, 1, 1)) \o lower(SubSeq(s, 2, Len(s)))

\* `sub in s` on strings
Contains(sub, s) ==
    \E i \in 1..(Len(s) - Len(sub) + 1) : SubSeq(s, i, i + Len(sub) - 1) = sub

\* round(n/d) for d > 0: to nearest, ties to the even integer
RoundHalfEven(n, d) ==
    LET q == n \div d
        r == n % d
    IN  IF 2 * r < d THEN q
        ELSE IF 2 * r > d THEN q + 1
        ELSE IF q % 2 = 0 THEN q ELSE q + 1

\* int(n/d) for d > 0: truncation toward zero
Trunc(n, d) == IF n >= 0 THEN n \div d ELSE -((-n) \div d)

(* ---------------------------------------------------------------------- *)
(* Inputs: the widget values of one session                                *)
(* ---------------------------------------------------------------------- *)
NumWeights == 4

MaxCardioSteps == 1

Sexes == {"Male", "Female"}

\* tenths of a kg, within the widget's 30.0..200.0
WeightSamples == <<300, 301, 600, 1200, 2000, 1199, 453>>

Weights == {WeightSamples[i] : i \in 1..Min(NumWeights, Len(WeightSamples))}

Ages == {28, 100}

Heights == {165}

Cardios == {300 * k : k \in 0..MaxCardioSteps}

StrengthLevels == {"Beginner", "Intermediate", "Advanced"}

StrengthChoices ==
    {<<"No", "">>} \cup {<<"Yes", l>> : l \in StrengthLevels}

DayChoices == {"Training day", "Rest day"}

TimingOptions ==
    << "Train after breakfast (early wake)", "Train after breakfast (late wake)",
       "Train before lunch", "Train after lunch", "Train before dinner",
       "Train after dinner", "Train late night", "Rest day" >>

Timings == {TimingOptions[i] : i \in 1..Len(TimingOptions)}

(* An uploaded file: kind "none" (nothing uploaded), "unreadable"          *)
(* (pd.read_csv raises) or "csv" with its header and its rows.  A row      *)
(* gives a value for every column the model knows; a value under a column  *)
(* the header lacks is never read.  has_cal = FALSE is an empty            *)
(* cal_per_100g cell, which pandas reads as NaN.                           *)
Row(food, category, tags, has_cal, cal) ==
    [food |-> food, category |-> category, tags |-> tags,
     has_cal |-> has_cal, cal |-> cal]

NoUpload == [kind |-> "none", columns |-> <<>>, rows |-> <<>>]

Unreadable == [kind |-> "unreadable", columns |-> <<>>, rows |-> <<>>]

PlainRows ==
    << Row("Rice", "carb", "", TRUE, 130), Row("Oats", "carb", "", TRUE, 389),
       Row("Chicken", "protein", "", TRUE, 165), Row("Broccoli", "veg", "", TRUE, 34) >>

MissingCalColumn ==
    [kind |-> "csv", columns |-> <<"food", "category", "kcal">>, rows |-> PlainRows]

MissingFoodColumn ==
    [kind |-> "csv", columns |-> <<"name", "Category", "cal_per_100g">>, rows |-> PlainRows]

UpperCaseCatalog ==
    [kind |-> "csv", columns |-> <<"Food", "CATEGORY", "Cal_Per_100g">>, rows |-> PlainRows]

ThreeCarbCatalog ==
    [kind |-> "csv", columns |-> <<"food", "category", "cal_per_100g">>,
     rows |-> << Row("Rice", "carb", "", TRUE, 130), Row("Oats", "carb", "", TRUE, 389),
                 Row("Pasta", "carb", "", TRUE, 130),
                 Row("Chicken", "protein", "", TRUE, 165) >>]

MalformedCatalog ==
    [kind |-> "csv", columns |-> <<"food", "category", "cal_per_100g">>,
     rows |-> << Row("Rice", "carb", "", TRUE, 130), Row("Mystery grain", "carb", "", FALSE, 0),
                 Row("Bulgur", "carb", "", TRUE, 83),
                 Row("Chicken", "protein", "", TRUE, 165) >>]

ZeroCalCatalog ==
    [kind |-> "csv", columns |-> <<"food", "category", "cal_per_100g">>,
     rows |-> << Row("Konjac", "carb", "", TRUE, 0),
                 Row("Broth", "protein", "", TRUE, -5) >>]

TagsCatalog ==
    [kind |-> "csv", columns |-> <<"food", "cal_per_100g", "Tags">>,
     rows |-> << Row("Brown rice", "", "Whole food;staple", TRUE, 111),
                 Row("Salmon", "", "fish;omega", TRUE, 208),
                 Row("Protein bar", "", "protein;carb;snack", TRUE, 350),
                 Row("Olive oil", "", "oil", TRUE, 884) >>]

Uploads ==
    {NoUpload, Unreadable, MissingCalColumn, MissingFoodColumn, UpperCaseCatalog,
     MalformedCatalog, ZeroCalCatalog, TagsCatalog}

RerunUploads == {NoUpload, Unreadable, MissingCalColumn, MissingFoodColumn, ThreeCarbCatalog}

VARIABLES
    sex, age, height_cm, weight_kg, has_strength, strength_level, cardio_cal,
    uploaded_file, day_choice, train_timing,
    pc, db_df, notice, bmr, no_activity_total,
    daily_target_train, daily_target_rest, daily_target,
    fat_grams, fat_kcal, protein_grams, protein_kcal,
    remaining_kcal, budget_error, carb_grams,
    post_workout_meal, carb_by_meal, protein_by_meal, rows, prev

inputs ==
    <<sex, age, height_cm, weight_kg, has_strength, strength_level, cardio_cal,
      day_choice, train_timing>>

energy == <<bmr, no_activity_total>>

targets == <<daily_target_train, daily_target_rest, daily_target>>

macros ==
    <<fat_grams, fat_kcal, protein_grams, protein_kcal, remaining_kcal,
      budget_error, carb_grams>>

splits == <<post_workout_meal, carb_by_meal, protein_by_meal>>

vars ==
    <<inputs, uploaded_file, pc, db_df, notice, energy, targets, macros, splits,
      rows, prev>>

(* ---------------------------------------------------------------------- *)
(* Helper functions of the script                                          *)
(* ---------------------------------------------------------------------- *)
\* whole kcal in units of 1/8750 kcal
Kcal(k) == 8750 * k

\* weight in tenths of a kg; the result in 1/1000 kcal
calc_bmr_mifflin(weight, height, years, s) ==
    IF lower(s) \in {"male", "m"}
    THEN weight * 999 + height * 6250 - years * 4920 + 5000
    ELSE weight * 999 + height * 6250 - years * 4920 - 161000

grams_to_cal_fat(g) == g * 9

NoneDf == [is_none |-> TRUE, columns |-> {}, rows |-> <<>>]

\* str(tags) of an empty cell (NaN) is "nan"
infer_cat(tags) ==
    LET t == lower(IF tags = "" THEN "nan" ELSE tags)
        has(k) == Contains(k, t)
    IN  IF has("protein") \/ has("meat") \/ has("fish") \/ has("egg") THEN "protein"
        ELSE IF has("grain") \/ has("carb") \/ has("rice") \/ has("oat")
                \/ has("bread") \/ has("potato") \/ has("sweet") THEN "carb"
        ELSE IF has("vegetable") \/ has("veg") \/ has("broccoli") \/ has("spinach") THEN "veg"
        ELSE IF has("fruit") \/ has("banana") \/ has("apple") THEN "fruit"
        ELSE IF has("fat") \/ has("oil") \/ has("olive") \/ has("almond") \/ has("nut") THEN "fat"
        ELSE "other"

\* the header's names, lowercased
LowerColumns(df) == {lower(df.columns[i]) : i \in 1..Len(df.columns)}

RequiredColumnsEither(df) ==
    LET cols == LowerColumns(df) IN "food" \in cols \/ "cal_per_100g" \in cols

\* `required` of load_food_db
RequiredColumns(df) ==
    LET cols == LowerColumns(df) IN "food" \in cols /\ "cal_per_100g" \in cols

\* df is a "csv" upload; the result is NoneDf or the normalised table
load_food_db(df) ==
    LET cols == LowerColumns(df)
    IN  IF ~RequiredColumns(df) THEN NoneDf
        ELSE [is_none |-> FALSE,
              columns |-> cols \cup {"category"},
              rows    |-> [i \in 1..Len(df.rows) |->
                             IF "category" \in cols THEN df.rows[i]
                             ELSE [df.rows[i] EXCEPT !.category =
                                     IF "tags" \in cols THEN infer_cat(df.rows[i].tags)
                                     ELSE "other"]]]

(* ---------------------------------------------------------------------- *)
(* The run                                                                 *)
(* ---------------------------------------------------------------------- *)
NoPrev == [exists |-> FALSE]

\* the values the script's names hold before the run assigns them
Fresh ==
    /\ pc = "upload"
    /\ db_df = NoneDf
    /\ notice = "none"
    /\ bmr = 0
    /\ no_activity_total = 0
    /\ daily_target_train = 0
    /\ daily_target_rest = 0
    /\ daily_target = 0
    /\ fat_grams = 0
    /\ fat_kcal = 0
    /\ protein_grams = 0
    /\ protein_kcal = 0
    /\ remaining_kcal = 0
    /\ budget_error = FALSE
    /\ carb_grams = 0
    /\ post_workout_meal = ""
    /\ carb_by_meal = <<>>
    /\ protein_by_meal = <<>>
    /\ rows = <<>>

InitWith(ags, ws, scs, cs, dcs, ts, ups) ==
    /\ sex \in Sexes
    /\ age \in ags
    /\ height_cm \in Heights
    /\ weight_kg \in ws
    /\ \E ch \in scs : has_strength = ch[1] /\ strength_level = ch[2]
    /\ cardio_cal \in cs
    /\ uploaded_file \in ups
    /\ day_choice \in dcs
    /\ train_timing \in ts
    /\ prev = NoPrev
    /\ Fresh

Init == InitWith(Ages, Weights, StrengthChoices, Cardios, DayChoices, Timings, Uploads)

\* lines 122-133: the optional upload
LoadCatalog ==
    /\ pc = "upload"
    /\ IF uploaded_file.kind = "none"
       THEN db_df' = NoneDf /\ notice' = "none"
       ELSE IF uploaded_file.kind = "unreadable"
       THEN db_df' = NoneDf /\ notice' = "error"
       ELSE /\ db_df' = load_food_db(uploaded_file)
            /\ notice' = IF db_df'.is_none THEN "warning" ELSE "success"
    /\ pc' = "bmr"
    /\ UNCHANGED <<inputs, uploaded_file, energy, targets, macros, splits, rows, prev>>

\* bmr / 0.7: bmr in 1/1000 kcal, the quotient in 1/7000 kcal
DivideBy07(b) == 10 * b

\* lines 141-145
CalcBMR ==
    /\ pc = "bmr"
    /\ bmr' = calc_bmr_mifflin(weight_kg, height_cm, age, sex)
    /\ no_activity_total' = DivideBy07(bmr')
    /\ pc' = "targets"
    /\ UNCHANGED <<inputs, uploaded_file, db_df, notice, targets, macros, splits, rows, prev>>

strength_est_map_swapped(level) ==
    CASE level = "Beginner" -> 150
      [] level = "Intermediate" -> 250
      [] level = "Advanced" -> 200

strength_est_map(level) ==
    CASE level = "Beginner" -> 150
      [] level = "Intermediate" -> 200
      [] level = "Advanced" -> 250

\* lines 105-110
strength_cal == IF has_strength = "Yes" THEN strength_est_map(strength_level) ELSE 0

\* e * 0.64: e in 1/7000 kcal (a multiple of 10), the product in 1/8750 kcal
Times064(e) == (8 * e) \div 10

\* lines 151-180
CalcTargets ==
    /\ pc = "targets"
    /\ IF has_strength = "No"
       THEN LET e == no_activity_total + 7000 * cardio_cal
                f == Times064(e)
            IN  daily_target_train' = f /\ daily_target_rest' = f
       ELSE LET c  == strength_cal
                d  == cardio_cal
                e1 == no_activity_total + 7000 * c + 7000 * d
                f1 == Times064(e1)
                e2 == no_activity_total + 7000 * d
                f2 == Times064(e2)
            IN  daily_target_train' = f1 /\ daily_target_rest' = f2
    /\ daily_target' = IF day_choice = "Training day" THEN daily_target_train'
                       ELSE daily_target_rest'
    /\ pc' = "macros"
    /\ UNCHANGED <<inputs, uploaded_file, db_df, notice, energy, macros, splits, rows, prev>>

ProteinGramsTruncated(w) == Trunc(18 * w, 10)

\* round(1.8 * weight_kg, 1): tenths of a kg in, tenths of a gram out
ProteinGrams(w) == RoundHalfEven(18 * w, 10)

Unclamped(r) == r

\* lines 206-208
ClampRemaining(r) == IF r < 0 THEN Max(0, r) ELSE r

\* lines 189-211
Macros ==
    /\ pc = "macros"
    /\ fat_grams' = IF sex = "Male" THEN (IF weight_kg >= 1200 THEN 70 ELSE 60) ELSE 50
    /\ fat_kcal' = Kcal(grams_to_cal_fat(fat_grams'))
    /\ protein_grams' = ProteinGrams(weight_kg)
    \* protein_grams * 4: tenths of a gram in, 1/8750 kcal out
    /\ protein_kcal' = 3500 * protein_grams'
    /\ LET remaining == daily_target - fat_kcal' - protein_kcal'
       IN  /\ budget_error' = (remaining < 0)
           /\ remaining_kcal' = ClampRemaining(remaining)
    \* round(remaining_kcal / 4, 1): 1/8750 kcal in, tenths of a gram out
    /\ carb_grams' = RoundHalfEven(remaining_kcal', 3500)
    /\ pc' = "timing"
    /\ UNCHANGED <<inputs, uploaded_file, db_df, notice, energy, targets, splits, rows, prev>>

PostWorkoutMealNoLateNight(t) ==
    LET l == lower(t)
    IN  IF Contains("breakfast", l) /\ Contains("after", l) THEN "Breakfast"
        ELSE IF Contains("before lunch", l) \/ Contains("after lunch", l) THEN "Lunch"
        ELSE IF Contains("before dinner", l) \/ Contains("after dinner", l) THEN "Dinner"
        ELSE "Lunch"

\* lines 235-244
PostWorkoutMeal(t) ==
    LET l == lower(t)
    IN  IF Contains("breakfast", l) /\ Contains("after", l) THEN "Breakfast"
        ELSE IF Contains("before lunch", l) \/ Contains("after lunch", l) THEN "Lunch"
        ELSE IF Contains("before dinner", l) \/ Contains("after dinner", l) THEN "Dinner"
        ELSE IF Contains("late night", l) THEN "Dinner"
        ELSE "Lunch"

ResolveTiming ==
    /\ pc = "timing"
    /\ post_workout_meal' = PostWorkoutMeal(train_timing)
    /\ pc' = "splits"
    /\ UNCHANGED <<inputs, uploaded_file, db_df, notice, energy, targets, macros,
                   carb_by_meal, protein_by_meal, rows, prev>>

carb_splits == [Breakfast |-> 20, PostWorkout |-> 40, Dinner |-> 30, Snack |-> 10]

protein_splits == [Breakfast |-> 20, Lunch |-> 30, Dinner |-> 30, Snack |-> 20]

CarbByMealAccumulating(pw) ==
    LET m0 == [Breakfast |-> carb_splits.Breakfast, Lunch |-> 0, Dinner |-> 0,
               Snack |-> carb_splits.Snack]
        m1 == IF pw \in DOMAIN m0 THEN [m0 EXCEPT ![pw] = @ + carb_splits.PostWorkout]
              ELSE [m0 EXCEPT !.Lunch = @ + carb_splits.PostWorkout]
    IN  [m1 EXCEPT !.Dinner = @ + carb_splits.Dinner]

\* lines 262-275
CarbByMeal(pw) ==
    LET m0 == [Breakfast |-> 0, Lunch |-> 0, Dinner |-> 0, Snack |-> carb_splits.Snack]
        m1 == [m0 EXCEPT !.Breakfast = carb_splits.Breakfast]
        m2 == IF pw \in DOMAIN m1 THEN [m1 EXCEPT ![pw] = @ + carb_splits.PostWorkout]
              ELSE [m1 EXCEPT !.Lunch = @ + carb_splits.PostWorkout]
    IN  IF "Dinner" \notin DOMAIN m2
        THEN [m \in DOMAIN m2 \cup {"Dinner"} |->
                IF m = "Dinner" THEN carb_splits.Dinner ELSE m2[m]]
        ELSE [m2 EXCEPT !.Dinner = @ + (IF m2.Dinner = 0 THEN carb_splits.Dinner ELSE 0)]

\* lines 262-279
BuildSplits ==
    /\ pc = "splits"
    /\ carb_by_meal' = CarbByMeal(post_workout_meal)
    /\ protein_by_meal' = [Breakfast |-> protein_splits.Breakfast, Lunch |-> protein_splits.Lunch,
                           Dinner |-> protein_splits.Dinner, Snack |-> protein_splits.Snack]
    /\ pc' = "suggest"
    /\ UNCHANGED <<inputs, uploaded_file, db_df, notice, energy, targets, macros,
                   post_workout_meal, rows, prev>>

(* ---------------------------------------------------------------------- *)
(* Food suggestions                                                        *)
(* ---------------------------------------------------------------------- *)
default_carbs ==
    << [food |-> "Cooked white rice", cal_per_100g |-> 130],
       [food |-> "Cooked sweet potato", cal_per_100g |-> 90],
       [food |-> "Oats (dry)", cal_per_100g |-> 389],
       [food |-> "Bread (slice)", cal_per_100g |-> 250] >>

default_proteins ==
    << [food |-> "Chicken breast (cooked)", cal_per_100g |-> 165],
       [food |-> "Egg (whole)", cal_per_100g |-> 155],
       [food |-> "Greek yogurt", cal_per_100g |-> 59],
       [food |-> "Tofu (firm)", cal_per_100g |-> 76] >>

meals == <<"Breakfast", "Lunch", "Dinner", "Snack">>

(* sample_foods: the samples subset.sample(min(n, len(subset))) can return, *)
(* each as the set of the chosen rows' indices.  The order of a sample is  *)
(* the order its items are listed in and changes no number.                *)
sample_foods(df, category, n) ==
    IF df.is_none THEN {{}}
    ELSE LET all    == 1..Len(df.rows)
             byCat  == {i \in all : df.rows[i].category = category}
             subset == IF byCat = {} /\ "tags" \in df.columns
                       THEN {i \in all : Contains(lower(category), lower(df.rows[i].tags))}
                       ELSE byCat
         IN  IF subset = {} THEN {{}}
             ELSE {S \in SUBSET subset : Cardinality(S) = Min(n, Cardinality(subset))}

\* it.get('cal_per_100g', 100): the cell (NaN when empty) when the table has
\* the column, the default otherwise
GetCal(df, i) ==
    IF "cal_per_100g" \in df.columns
    THEN [nan |-> ~df.rows[i].has_cal, v |-> IF df.rows[i].has_cal THEN df.rows[i].cal ELSE 0]
    ELSE [nan |-> FALSE, v |-> 100]

\* an item of the catalog branch raises: round(NaN) is a ValueError, and
\* it['food'] is a KeyError without the column
ItemRaises(df, i) == GetCal(df, i).nan \/ "food" \notin df.columns

\* lines 323-325 and 327-329 with cal100 given; target in 1/875000 kcal
SuggestionFor(df, i, cal100, target) ==
    LET grams == IF ~cal100.nan /\ cal100.v > 0 THEN Trunc(target, 8750 * cal100.v) ELSE 0
    IN  [item |-> i, food |-> df.rows[i].food, grams |-> grams,
         kcal |-> RoundHalfEven(cal100.v * grams, 100)]

CatalogSuggestionsStale(df, items, target) ==
    LET first == CHOOSE i \in items : \A j \in items : i <= j
    IN  {SuggestionFor(df, i, GetCal(df, first), target) : i \in items}

\* the loops of lines 322-325 and 326-329 over the sampled items
CatalogSuggestions(df, items, target) ==
    {SuggestionFor(df, i, GetCal(df, i), target) : i \in items}

\* lines 333-337 for one default item
DefaultSuggestion(it, target) ==
    LET grams == IF it.cal_per_100g > 0 THEN Trunc(target, 8750 * it.cal_per_100g) ELSE 0
    IN  [item |-> 0, food |-> it.food, grams |-> grams,
         kcal |-> Trunc(it.cal_per_100g * grams, 100)]

\* suggest_for_meal: every result the call can have
suggest_for_meal(carb_kcal, protein_kcal_meal, df) ==
    IF ~df.is_none
    THEN { [raised   |-> \E i \in C \cup P : ItemRaises(df, i),
            carbs    |-> CatalogSuggestions(df, C, carb_kcal),
            proteins |-> CatalogSuggestions(df, P, protein_kcal_meal),
            fat_notes |-> fat_grams] :
           C \in sample_foods(df, "carb", 2), P \in sample_foods(df, "protein", 2) }
    ELSE { [raised   |-> FALSE,
            carbs    |-> {DefaultSuggestion(default_carbs[1], carb_kcal)},
            proteins |-> {DefaultSuggestion(default_proteins[1], protein_kcal_meal)},
            fat_notes |-> fat_grams] }

\* lines 345-350: one iteration of the loop over the meals
SuggestMeal ==
    /\ pc = "suggest"
    /\ LET meal == meals[Len(rows) + 1]
           carb_kcal == daily_target * carb_by_meal[meal]
           protein_kcal_meal == protein_kcal * protein_by_meal[meal]
       IN  \E sugg \in suggest_for_meal(carb_kcal, protein_kcal_meal, db_df) :
              IF sugg.raised
              THEN pc' = "aborted" /\ rows' = rows
              ELSE /\ rows' = Append(rows, [meal |-> meal, carb_kcal |-> carb_kcal,
                                            protein_kcal |-> protein_kcal_meal,
                                            carbs |-> sugg.carbs, proteins |-> sugg.proteins,
                                            fat_notes |-> sugg.fat_notes])
                   /\ pc' = IF Len(rows') = Len(meals) THEN "done" ELSE "suggest"
    /\ UNCHANGED <<inputs, uploaded_file, db_df, notice, energy, targets, macros, splits, prev>>

\* what a finished (or aborted) run leaves on the page
Outputs ==
    [exists |-> TRUE, uploaded_file |-> uploaded_file, pc |-> pc,
     db_none |-> db_df.is_none, bmr |-> bmr, no_activity_total |-> no_activity_total,
     daily_target_train |-> daily_target_train, daily_target_rest |-> daily_target_rest,
     daily_target |-> daily_target, fat_grams |-> fat_grams, fat_kcal |-> fat_kcal,
     protein_grams |-> protein_grams, protein_kcal |-> protein_kcal,
     remaining_kcal |-> remaining_kcal, carb_grams |-> carb_grams,
     carb_by_meal |-> carb_by_meal, protein_by_meal |-> protein_by_meal, rows |-> rows]

\* the script runs again from its first line, the widgets keeping their
\* values, with file `up` in the uploader (the same file or another)
Rerun(up) ==
    /\ pc \in {"done", "aborted"}
    /\ prev' = Outputs
    /\ uploaded_file' = up
    /\ pc' = "upload"
    /\ db_df' = NoneDf
    /\ notice' = "none"
    /\ bmr' = 0
    /\ no_activity_total' = 0
    /\ daily_target_train' = 0
    /\ daily_target_rest' = 0
    /\ daily_target' = 0
    /\ fat_grams' = 0
    /\ fat_kcal' = 0
    /\ protein_grams' = 0
    /\ protein_kcal' = 0
    /\ remaining_kcal' = 0
    /\ budget_error' = FALSE
    /\ carb_grams' = 0
    /\ post_workout_meal' = ""
    /\ carb_by_meal' = <<>>
    /\ protein_by_meal' = <<>>
    /\ rows' = <<>>
    /\ UNCHANGED inputs

Next ==
    \/ LoadCatalog
    \/ CalcBMR
    \/ CalcTargets
    \/ Macros
    \/ ResolveTiming
    \/ BuildSplits
    \/ SuggestMeal

Spec == Init /\ [][Next]_vars

InitRerun ==
    InitWith({28}, {301}, {<<"No", "">>, <<"Yes", "Advanced">>}, {0},
             {"Training day"}, {"Train before dinner"}, RerunUploads)

NextRerun ==
    \/ Next
    \/ \E up \in RerunUploads : Rerun(up)

SpecRerun == InitRerun /\ [][NextRerun]_vars

(* ---------------------------------------------------------------------- *)
(* Properties                                                              *)
(* ---------------------------------------------------------------------- *)
StageNo ==
    [upload |-> 1, bmr |-> 2, targets |-> 3, macros |-> 4, timing |-> 5,
     splits |-> 6, suggest |-> 7, done |-> 8, aborted |-> 8]

\* the step that is taken at pc = stage has been taken in this run
Past(stage) == StageNo[pc] > StageNo[stage]

\* C1: once the macros are allocated, the carb kcal kept is
\* max(0, daily_target - fat_kcal - protein_kcal) and carb_grams is not
\* negative; the budget error is shown exactly when fat_kcal + protein_kcal
\* exceeds daily_target, and then carb kcal and carb_grams are 0 and the
\* run goes on (it never aborts without a catalog).
C1_CarbClamp ==
    Past("macros") =>
        LET remaining == daily_target - fat_kcal - protein_kcal
        IN  /\ remaining_kcal = (IF remaining > 0 THEN remaining ELSE 0)
            /\ carb_grams >= 0
            /\ budget_error <=> (fat_kcal + protein_kcal > daily_target)
            /\ budget_error => remaining_kcal = 0 /\ carb_grams = 0
            /\ budget_error /\ db_df.is_none => pc # "aborted"

C1_Witness ==
    /\ pc = "done"
    /\ budget_error
    /\ fat_kcal + protein_kcal > daily_target
    /\ carb_grams = 0

ExpectedPostWorkout ==
    << "Breakfast", "Breakfast", "Lunch", "Lunch", "Dinner", "Dinner", "Dinner", "Lunch" >>

\* C2: each of the 8 training timings resolves to exactly one post-workout
\* meal: the two after-breakfast timings to Breakfast, before/after lunch to
\* Lunch, before/after dinner and late night to Dinner, rest day to Lunch;
\* never to Snack.
C2_PostWorkoutResolution ==
    Past("timing") =>
        /\ \E i \in 1..Len(TimingOptions) :
              TimingOptions[i] = train_timing /\ post_workout_meal = ExpectedPostWorkout[i]
        /\ post_workout_meal \in {"Breakfast", "Lunch", "Dinner"}

C2_Witness ==
    /\ Past("timing")
    /\ train_timing = "Train late night"
    /\ post_workout_meal = "Dinner"

\* C3: rest_day_kcal = (bmr/0.7 + cardio) * 0.64 (in the model's units:
\* 8 * bmr + 5600 * cardio); without strength training the training-day
\* target equals it, with strength training the training-day target exceeds
\* it by 0.64 * strength_kcal, strength_kcal being 150/200/250 for
\* Beginner/Intermediate/Advanced; daily_target is the training-day target
\* for 'Training day' and the rest-day target otherwise.
C3_DailyTargets ==
    Past("targets") =>
        /\ daily_target_rest = 8 * bmr + 5600 * cardio_cal
        /\ has_strength = "No" => daily_target_train = daily_target_rest
        /\ has_strength = "Yes" =>
              /\ strength_level = "Beginner" =>
                    25 * (daily_target_train - daily_target_rest) = 16 * Kcal(150)
              /\ strength_level = "Intermediate" =>
                    25 * (daily_target_train - daily_target_rest) = 16 * Kcal(200)
              /\ strength_level = "Advanced" =>
                    25 * (daily_target_train - daily_target_rest) = 16 * Kcal(250)
        /\ daily_target = IF day_choice = "Training day" THEN daily_target_train
                          ELSE daily_target_rest

C3_Witness ==
    /\ Past("targets")
    /\ has_strength = "Yes"
    /\ strength_level = "Intermediate"
    /\ day_choice = "Training day"
    /\ daily_target > daily_target_rest

RECURSIVE SumCarbKcal(_)
\* the rows' carb kcal summed, in 1/87500 kcal
SumCarbKcal(rs) ==
    IF Len(rs) = 0 THEN 0 ELSE (Head(rs).carb_kcal \div 10) + SumCarbKcal(Tail(rs))

\* C4: the four meals' carb kcal sum to at most the residual carb kcal of
\* the macro allocation, and all are 0 when the residual was clamped to 0.
C4_MealCarbsWithinResidual ==
    pc = "done" =>
        /\ SumCarbKcal(rows) <= 10 * remaining_kcal
        /\ budget_error => \A i \in 1..Len(rows) : rows[i].carb_kcal = 0

\* C5: with a catalog that passed the column check the run never aborts,
\* and a selected row without a cal_per_100g value is suggested as if it
\* had 100 kcal per 100 g (grams = the meal's target kcal truncated).
C5_MalformedRowDefault ==
    /\ pc # "aborted"
    /\ ~db_df.is_none =>
          \A i \in 1..Len(rows) :
             /\ \A sg \in rows[i].carbs :
                   ~db_df.rows[sg.item].has_cal => sg.grams = Trunc(rows[i].carb_kcal, 875000)
             /\ \A sg \in rows[i].proteins :
                   ~db_df.rows[sg.item].has_cal => sg.grams = Trunc(rows[i].protein_kcal, 875000)

\* the upload cannot be read, or its header lacks 'food' or 'cal_per_100g'
\* whatever the letters' case
InvalidUpload(f) ==
    \/ f.kind = "unreadable"
    \/ /\ f.kind = "csv"
       /\ \/ ~\E i \in 1..Len(f.columns) : lower(f.columns[i]) = "food"
          \/ ~\E i \in 1..Len(f.columns) : lower(f.columns[i]) = "cal_per_100g"

\* the numbers of the BMR, target, macro and meal stages, and the meal rows
Numbers(o) ==
    <<o.bmr, o.no_activity_total, o.daily_target_train, o.daily_target_rest,
      o.daily_target, o.fat_grams, o.fat_kcal, o.protein_grams, o.protein_kcal,
      o.remaining_kcal, o.carb_grams, o.carb_by_meal, o.protein_by_meal, o.rows>>

OneDefault(suggs, it) == Cardinality(suggs) = 1 /\ \A sg \in suggs : sg.food = it.food

\* C6: an upload that cannot be read or lacks a required column is
\* discarded (db_df is None) with a warning or error shown; every meal then
\* gets exactly the first default carb item and the first default protein
\* item, the run completes, and its numbers are those of a run without any
\* upload.
C6_InvalidCatalogFallback ==
    Past("upload") /\ InvalidUpload(uploaded_file) =>
        /\ db_df.is_none
        /\ notice \in {"warning", "error"}
        /\ pc # "aborted"
        /\ \A i \in 1..Len(rows) :
              /\ OneDefault(rows[i].carbs, default_carbs[1])
              /\ OneDefault(rows[i].proteins, default_proteins[1])
        /\ pc = "done" /\ prev.exists /\ prev.uploaded_file = NoUpload =>
              Numbers(Outputs) = Numbers(prev)

C6_Witness ==
    /\ pc = "done"
    /\ uploaded_file = MissingFoodColumn
    /\ notice = "warning"
    /\ prev.exists
    /\ prev.uploaded_file = NoUpload
    /\ Len(prev.rows) = Len(meals)

\* this run and the previous one read the same valid catalog
SameCatalogRuns ==
    /\ prev.exists
    /\ Past("upload")
    /\ prev.uploaded_file = uploaded_file
    /\ ~db_df.is_none

GramsAndKcal(suggs) == {<<sg.grams, sg.kcal>> : sg \in suggs}

\* C7 as stated: of two runs on the same inputs and the same valid catalog
\* every number is the same, the grams and kcal of each suggestion included.
C7_AllNumbersEqual ==
    SameCatalogRuns /\ pc = "done" /\ prev.pc = "done" =>
        \A i \in 1..Len(meals) :
           /\ rows[i].carb_kcal = prev.rows[i].carb_kcal
           /\ rows[i].protein_kcal = prev.rows[i].protein_kcal
           /\ GramsAndKcal(rows[i].carbs) = GramsAndKcal(prev.rows[i].carbs)
           /\ GramsAndKcal(rows[i].proteins) = GramsAndKcal(prev.rows[i].proteins)

SameNumbersForSameCal(df, a, b) ==
    \A sg \in a, t \in b :
        df.rows[sg.item].cal = df.rows[t.item].cal => sg.grams = t.grams /\ sg.kcal = t.kcal

\* C7 amended: of two runs on the same inputs and the same valid catalog
\* the BMR, target and macro numbers and each meal's carb and protein kcal
\* are the same, and two suggestions for the same meal have the same grams
\* and kcal whenever their items have the same cal_per_100g (the same item
\* in particular).
C7_NumbersDeterminedByItem ==
    SameCatalogRuns =>
        /\ Past("macros") =>
              /\ <<bmr, no_activity_total, daily_target_train, daily_target_rest, daily_target>>
                 = <<prev.bmr, prev.no_activity_total, prev.daily_target_train,
                     prev.daily_target_rest, prev.daily_target>>
              /\ <<fat_grams, fat_kcal, protein_grams, protein_kcal, remaining_kcal, carb_grams>>
                 = <<prev.fat_grams, prev.fat_kcal, prev.protein_grams, prev.protein_kcal,
                     prev.remaining_kcal, prev.carb_grams>>
        /\ \A i \in 1..Min(Len(rows), Len(prev.rows)) :
              /\ rows[i].carb_kcal = prev.rows[i].carb_kcal
              /\ rows[i].protein_kcal = prev.rows[i].protein_kcal
              /\ SameNumbersForSameCal(db_df, rows[i].carbs, prev.rows[i].carbs)
              /\ SameNumbersForSameCal(db_df, rows[i].proteins, prev.rows[i].proteins)

Items(suggs) == {sg.item : sg \in suggs}

C7_Witness ==
    /\ SameCatalogRuns
    /\ pc = "done"
    /\ prev.pc = "done"
    /\ \E i \in 1..Len(meals) :
          /\ Items(rows[i].carbs) # Items(prev.rows[i].carbs)
          /\ Items(rows[i].carbs) \cap Items(prev.rows[i].carbs) # {}
          /\ GramsAndKcal(rows[i].carbs) # GramsAndKcal(prev.rows[i].carbs)

\* C8 as stated: protein_grams is exactly 1.8 * weight_kg for every weight
\* in 0.1 kg steps, and protein_kcal is protein_grams * 4.
C8_ProteinExact ==
    Past("macros") =>
        /\ 10 * protein_grams = 18 * weight_kg
        /\ 10 * protein_kcal = Kcal(4 * protein_grams)

\* C8 amended: protein_grams is 1.8 * weight_kg rounded to one decimal (the
\* tenth of a gram nearest to it, at most 0.04 g away), equal to
\* 1.8 * weight_kg exactly when weight_kg is a multiple of 0.5 kg, and
\* protein_kcal is the rounded protein_grams * 4.
C8_ProteinRounded ==
    Past("macros") =>
        /\ 10 * protein_grams - 18 * weight_kg \in -4..4
        /\ (10 * protein_grams = 18 * weight_kg) <=> (weight_kg % 5 = 0)
        /\ 10 * protein_kcal = Kcal(4 * protein_grams)

C8_Witness ==
    /\ Past("macros")
    /\ weight_kg % 5 # 0
    /\ 10 * protein_grams # 18 * weight_kg

CatalogOf(it) ==
    [is_none |-> FALSE, columns |-> {"food", "category", "cal_per_100g"},
     rows |-> << Row(it.food, "carb", "", TRUE, it.cal_per_100g) >>]

\* C10: without a catalog each meal's default carb and protein suggestion
\* has the grams and kcal the catalog branch gives an item of the same
\* cal_per_100g: grams truncated, kcal rounded to the nearest integer.
C10_DefaultsLikeCatalog ==
    db_df.is_none =>
        \A i \in 1..Len(rows) :
           /\ GramsAndKcal(rows[i].carbs) =
                 GramsAndKcal(CatalogSuggestions(CatalogOf(default_carbs[1]), {1},
                                                 rows[i].carb_kcal))
           /\ GramsAndKcal(rows[i].proteins) =
                 GramsAndKcal(CatalogSuggestions(CatalogOf(default_proteins[1]), {1},
                                                 rows[i].protein_kcal))

====
